---- MODULE Spec2Model ----
(***************************************************************************)
(* Model of parse_election_data (src/app.py) and of the branch main takes  *)
(* on its result.  Cell texts are strings handled character by character,  *)
(* the way the Python string methods used by the parser handle them.       *)
(***************************************************************************)
EXTENDS Integers, Sequences, FiniteSets, TLC

(***************************************************************************)
(* Python string operations used by the parser                             *)
(***************************************************************************)

CharAt(s, k) == SubSeq(s, k, k)

LowerLetters == "abcdefghijklmnopqrstuvwxyz"

UpperLetters == "ABCDEFGHIJKLMNOPQRSTUVWXYZ"

DigitChars == {"0", "1", "2", "3", "4", "5", "6", "7", "8", "9"}

LowerSet == { CharAt(LowerLetters, k) : k \in 1..Len(LowerLetters) }

UpperSet == { CharAt(UpperLetters, k) : k \in 1..Len(UpperLetters) }

\* the upper-case letter of each lower-case letter, and the reverse
UpperOf ==
    [c \in LowerSet |->
        CharAt(UpperLetters, CHOOSE k \in 1..Len(LowerLetters) : CharAt(LowerLetters, k) = c)]

LowerOf ==
    [c \in UpperSet |->
        CharAt(LowerLetters, CHOOSE k \in 1..Len(UpperLetters) : CharAt(UpperLetters, k) = c)]

\* str.upper() of one character
UpperChar(c) == IF c \in LowerSet THEN UpperOf[c] ELSE c

\* str.lower() of one character
LowerChar(c) == IF c \in UpperSet THEN LowerOf[c] ELSE c

RECURSIVE Upper(_)
Upper(s) == IF s = "" THEN "" ELSE UpperChar(CharAt(s, 1)) \o Upper(SubSeq(s, 2, Len(s)))

RECURSIVE Lower(_)
Lower(s) == IF s = "" THEN "" ELSE LowerChar(CharAt(s, 1)) \o Lower(SubSeq(s, 2, Len(s)))

IsSpace(c) == c = " "

RECURSIVE LStrip(_)
LStrip(s) ==
    IF s # "" /\ IsSpace(CharAt(s, 1)) THEN LStrip(SubSeq(s, 2, Len(s))) ELSE s

RECURSIVE RStrip(_)
RStrip(s) ==
    IF s # "" /\ IsSpace(CharAt(s, Len(s))) THEN RStrip(SubSeq(s, 1, Len(s) - 1)) ELSE s

\* str.strip()
Strip(s) == RStrip(LStrip(s))

\* str.startswith(p)
StartsWith(s, p) == Len(s) >= Len(p) /\ SubSeq(s, 1, Len(p)) = p

\* sub in s
Contains(s, sub) ==
    \E k \in 1..(Len(s) - Len(sub) + 1) : SubSeq(s, k, k + Len(sub) - 1) = sub

\* ' '.join(cells)
RECURSIVE Join(_)
Join(cells) ==
    IF Len(cells) = 0 THEN ""
    ELSE IF Len(cells) = 1 THEN cells[1]
    ELSE cells[1] \o " " \o Join(Tail(cells))

(***************************************************************************)
(* Raw cells and df.astype(str)                                            *)
(***************************************************************************)

Empty == [k |-> "nan", v |-> 0, s |-> ""]

Num(n) == [k |-> "num", v |-> n, s |-> ""]

Txt(t) == [k |-> "str", v |-> 0, s |-> t]

\* str(cell): NaN prints as 'nan', an integer of an object column in decimal,
\* a text as itself
AsStr(cell) ==
    IF cell.k = "nan" THEN "nan"
    ELSE IF cell.k = "num" THEN ToString(cell.v)
    ELSE cell.s

StrRow(row) == [c \in 1..Len(row) |-> AsStr(row[c])]

\* df_str = df.astype(str)
AsTypeStr(grid) == [r \in 1..Len(grid) |-> StrRow(grid[r])]

(***************************************************************************)
(* Section detection (the loop over df_str.iterrows())                     *)
(***************************************************************************)

RangeStop == 24

\* prefixes = tuple(f"{i} -" for i in range(1, 24))
prefixes == { ToString(n) \o " -" : n \in 1..(RangeStop - 1) }

\* the tuple of literals passed to cell_value.startswith
LiteralPrefixes ==
    {"1 -", "2 -", "3 -", "4 -", "5 -", "6 -", "7 -", "8 -", "9 -", "10 -", "11 -",
     "12 -", "13 -", "14 -", "15 -", "16 -", "17 -", "18 -", "19 -", "20 -", "21 -",
     "22 -", "23 -"}

StartsWithAny(s, ps) == \E p \in ps : StartsWith(s, p)

\* the condition of the if statement on one cell of df_str
IsSectionCell(cell) ==
    LET cell_value == Strip(cell)
        text == Lower(Strip(cell_value))
    IN  /\ StartsWithAny(cell_value, LiteralPrefixes)
        /\ StartsWithAny(text, prefixes)
        /\ (Contains(text, "council") \/ Contains(text, "sabha"))

\* the columns of a row whose cell passes the test
SectionCols(row) == { c \in 1..Len(row) : IsSectionCell(row[c]) }

\* the column kept if the inner loop did not stop at the first match
LastSectionCol(row) == CHOOSE c \in SectionCols(row) : \A d \in SectionCols(row) : c >= d

\* the column at which the inner loop appends and breaks
FirstSectionCol(row) == CHOOSE c \in SectionCols(row) : \A d \in SectionCols(row) : c <= d

\* council_sections after the rows 0 .. n-1 of df_str have been visited;
\* idx is the 0-based row label
RECURSIVE DetectUpTo(_, _)
DetectUpTo(df_str, n) ==
    IF n = 0 THEN << >>
    ELSE LET row == df_str[n]
             before == DetectUpTo(df_str, n - 1)
         IN  IF SectionCols(row) # {}
             THEN Append(before, [idx |-> n - 1, name |-> Strip(row[FirstSectionCol(row)])])
             ELSE before

DetectSectionsOf(df_str) == DetectUpTo(df_str, Len(df_str))

(***************************************************************************)
(* Numeric coercion int(float(text))                                       *)
(***************************************************************************)

DigitVal(c) == CHOOSE d \in 0..9 : ToString(d) = c

RECURSIVE DigitsToNat(_)
DigitsToNat(s) ==
    IF s = "" THEN 0
    ELSE 10 * DigitsToNat(SubSeq(s, 1, Len(s) - 1)) + DigitVal(CharAt(s, Len(s)))

\* the positions of the decimal point
Points(s) == { k \in 1..Len(s) : CharAt(s, k) = "." }

\* digits with at most one decimal point and at least one digit
IsDecimal(s) ==
    /\ \A k \in 1..Len(s) : CharAt(s, k) \in DigitChars \cup {"."}
    /\ Cardinality(Points(s)) <= 1
    /\ \E k \in 1..Len(s) : CharAt(s, k) \in DigitChars

\* the digits before the decimal point
WholePart(s) ==
    IF Points(s) = {} THEN s
    ELSE SubSeq(s, 1, (CHOOSE k \in Points(s) : TRUE) - 1)

\* float(text): surrounding whitespace is ignored, an optional sign, then
\* inf / infinity / nan in any case, or a decimal numeral; anything else
\* raises ValueError (the cell texts of the grids hold no exponent and no
\* digit separator, which float also accepts)
ParseFloat(src) ==
    LET t == Strip(src)
        signed == t # "" /\ CharAt(t, 1) \in {"+", "-"}
        neg == signed /\ CharAt(t, 1) = "-"
        body == IF signed THEN SubSeq(t, 2, Len(t)) ELSE t
    IN  IF Lower(body) \in {"inf", "infinity"} THEN [kind |-> "inf", neg |-> neg, whole |-> 0]
        ELSE IF Lower(body) = "nan" THEN [kind |-> "nan", neg |-> neg, whole |-> 0]
        ELSE IF IsDecimal(body)
             THEN [kind |-> "num", neg |-> neg, whole |-> DigitsToNat(WholePart(body))]
        ELSE [kind |-> "err", neg |-> neg, whole |-> 0]

\* int(x) of a float: truncation toward zero; int(inf) raises OverflowError,
\* int(nan) raises ValueError
IntOfFloat(f) ==
    IF f.kind = "num" THEN [exc |-> "none", val |-> IF f.neg THEN 0 - f.whole ELSE f.whole]
    ELSE IF f.kind = "inf" THEN [exc |-> "OverflowError", val |-> 0]
    ELSE [exc |-> "ValueError", val |-> 0]

\* int(float(x)) if x != 'nan' else 0
Coerce(src) ==
    IF src # "nan" THEN IntOfFloat(ParseFloat(src)) ELSE [exc |-> "none", val |-> 0]

(***************************************************************************)
(* One row of a section                                                    *)
(***************************************************************************)

\* the header test on a row of df_str
IsHeaderRow(row) ==
    LET row_str == Upper(Join(row))
    IN  Contains(row_str, "PARTY") /\ Contains(row_str, "VOTES") /\ Contains(row_str, "TOTAL")

\* row_data = [cell for cell in row.values if cell not in ['nan', '', None]]
RowData(row) == SelectSeq(row, LAMBDA cell : cell \notin {"nan", ""})

NoRecord == [Party |-> "", Votes |-> 0, Seats |-> 0]

\* except (ValueError, IndexError)
InnerCaught == {"ValueError", "IndexError"}

\* a comparison that forgets the upper-casing
IsTotalPartyExact(party) == party = "TOTAL"

\* the party name is kept and compared as it stands in the cell
IsTotalParty(party) == Upper(party) = "TOTAL"

\* the body of "if header_found:" on one row: the row appends a record, is
\* skipped, or raises an exception that the inner except clause does not catch
CollectRow(row) ==
    LET row_data == RowData(row)
    IN  IF Len(row_data) < 3 THEN [kind |-> "skip", rec |-> NoRecord, exc |-> "none"]
        ELSE LET party == row_data[1]
                 votes == Coerce(row_data[2])
                 seats == Coerce(row_data[3])
                 failed == IF votes.exc # "none" THEN votes.exc ELSE seats.exc
             IN  IF failed \in InnerCaught
                 THEN [kind |-> "skip", rec |-> NoRecord, exc |-> "none"]
                 ELSE IF failed # "none"
                 THEN [kind |-> "raise", rec |-> NoRecord, exc |-> failed]
                 ELSE IF ~IsTotalParty(party)
                 THEN [kind |-> "append",
                       rec |-> [Party |-> party, Votes |-> votes.val, Seats |-> seats.val],
                       exc |-> "none"]
                 ELSE [kind |-> "skip", rec |-> NoRecord, exc |-> "none"]

\* council_df[council_df['Votes'] > 0]
PositiveVotes(section_data) == SelectSeq(section_data, LAMBDA rec : rec.Votes > 0)

(***************************************************************************)
(* Grids                                                                   *)
(***************************************************************************)

MaxBody == 3

MaxSections == 2

TitleA == <<Txt("1 - Sabha"), Empty, Empty>>

TitleB == <<Empty, Txt(" 23 - x COUNCIL "), Txt("1 - Sabha")>>

Header == <<Txt("Party"), Txt("Votes"), Txt("Total")>>

Plain == <<Txt("UNP"), Num(1500), Num(2)>>

ZeroVotes == <<Txt("SLPP"), Num(0), Num(0)>>

TotalRow == <<Txt("Total"), Num(2500), Num(3)>>

Unparsable == <<Txt("JVP"), Txt("abc"), Num(1)>>

Infinite == <<Txt("JVP"), Txt("inf"), Num(1)>>

NegativeVotes == <<Txt("ITAK"), Num(-5), Num(1)>>

Padded == <<Txt(" SLFP "), Txt("7.9"), Num(-1)>>

Blank == <<Txt(" "), Num(4), Num(1)>>

Short == <<Txt("UNP"), Num(5), Empty>>

NearTitle == <<Txt("24 - Sabha"), Num(6), Num(1)>>

TitleRows == {TitleA, TitleB}

DataRows ==
    {Plain, ZeroVotes, TotalRow, Unparsable, Infinite, NegativeVotes, Padded, Blank,
     Short, NearTitle}

BodyRows == DataRows \cup {Header} \cup TitleRows

RECURSIVE SeqsUpTo(_, _)
SeqsUpTo(S, n) ==
    IF n = 0 THEN {<< >>}
    ELSE LET shorter == SeqsUpTo(S, n - 1)
         IN  shorter \cup { Append(q, x) : q \in shorter, x \in S }

RECURSIVE Flatten(_)
Flatten(blocks) == IF blocks = << >> THEN << >> ELSE Head(blocks) \o Flatten(Tail(blocks))

\* one section in depth: a title row and up to MaxBody rows of any kind
DeepGrids == { <<TitleA>> \o body : body \in SeqsUpTo(BodyRows, MaxBody) }

SmallBlocks ==
    { <<t>> : t \in TitleRows } \cup
    { <<t, Header, d>> : t \in TitleRows, d \in {Plain, ZeroVotes, Infinite, Padded} }

\* up to MaxSections short sections one after the other
WideGrids == { Flatten(bs) : bs \in SeqsUpTo(SmallBlocks, MaxSections) }

\* texts that are, or only resemble, section titles
TitleTexts ==
    {"1 - Town", "1- Sabha", "0 - Council", " 9 -sabha", "10 - URBAN COUNCIL",
     "x 2 - sabha", "231 - sabha", "23 - Pradeshiya Sabha"}

\* two rows, each with one such text
TitleProbes ==
    { << <<Txt(a), Empty, Empty>>, <<Empty, Num(7), Txt(b)>> >> : a, b \in TitleTexts }

\* texts met in the votes and seats positions
NumberTexts == {"12", " -12.75 ", "5.", ".", "", "+3", "-0.5", " nan", "-Inf", "Infinity"}

\* one section whose first data row carries such texts
NumberProbes ==
    { <<TitleA, Header, <<Txt("UNP"), Txt(v), Txt(t)>>, Plain>> : v, t \in NumberTexts }

\* a title row whose joined text also passes the header test
TitleHeader == <<Txt("2 - Party Votes Sabha"), Txt("Total"), Empty>>

\* a row that passes the header test and also reads as a party row
HeaderData == <<Txt("Party Votes Total"), Num(9), Num(1)>>

\* a section with up to MaxBody header-like or plain rows, alone or followed
\* by a section that has a header and a record
HeaderProbes ==
    { <<t>> \o body \o rest :
        t \in {TitleHeader, TitleB},
        body \in SeqsUpTo({Header, HeaderData, Plain}, MaxBody),
        rest \in {<< >>, <<TitleA, Header, Plain>>} }

Grids == DeepGrids \cup WideGrids \cup TitleProbes \cup NumberProbes \cup HeaderProbes

(***************************************************************************)
(* parse_election_data and main as a state machine                        *)
(***************************************************************************)

\* df, council_sections, i, end_idx, row_idx, header_found, section_data and
\* councils_data are the variables of parse_election_data of the same names;
\* pc is the position in the code, errors the section names passed to
\* st.error, raised the exception in flight, branch the branch main takes
VARIABLES df, pc, council_sections, i, end_idx, row_idx, header_found, section_data,
          councils_data, errors, raised, branch

vars == <<df, pc, council_sections, i, end_idx, row_idx, header_found, section_data,
          councils_data, errors, raised, branch>>

df_str == AsTypeStr(df)

\* (start_idx, council_name) of the section the for loop is at
start_idx == council_sections[i + 1].idx

council_name == council_sections[i + 1].name

\* df_str.iloc[row_idx]
row == StrRow(df[row_idx + 1])

Init ==
    /\ df \in Grids
    /\ pc = "detect"
    /\ council_sections = << >>
    /\ i = 0
    /\ end_idx = 0
    /\ row_idx = 0
    /\ header_found = FALSE
    /\ section_data = << >>
    /\ councils_data = << >>
    /\ errors = << >>
    /\ raised = "none"
    /\ branch = "none"

\* the loop over df_str.iterrows() and the st.write that follows it
DetectSections ==
    /\ pc = "detect"
    /\ council_sections' = DetectSectionsOf(df_str)
    /\ pc' = "for"
    /\ UNCHANGED <<df, i, end_idx, row_idx, header_found, section_data, councils_data,
                   errors, raised, branch>>

\* the for loop enters the try block of section i
BeginSection ==
    /\ pc = "for"
    /\ i < Len(council_sections)
    /\ end_idx' = IF i < Len(council_sections) - 1
                  THEN council_sections[i + 2].idx
                  ELSE Len(df_str)
    /\ section_data' = << >>
    /\ header_found' = FALSE
    /\ row_idx' = start_idx
    /\ pc' = "rows"
    /\ UNCHANGED <<df, council_sections, i, councils_data, errors, raised, branch>>

\* the title row handled like any other row before the header
SkipTitleRowUnguarded ==
    /\ pc = "rows"
    /\ row_idx < end_idx
    /\ row_idx = start_idx
    /\ header_found' = IsHeaderRow(row)
    /\ row_idx' = row_idx + 1
    /\ UNCHANGED <<df, pc, council_sections, i, end_idx, section_data, councils_data,
                   errors, raised, branch>>

\* if row_idx == start_idx: continue
SkipTitleRow ==
    /\ pc = "rows"
    /\ row_idx < end_idx
    /\ row_idx = start_idx
    /\ row_idx' = row_idx + 1
    /\ UNCHANGED <<df, pc, council_sections, i, end_idx, header_found, section_data,
                   councils_data, errors, raised, branch>>

\* a row seen while header_found is False: it is the header or it is passed over
SeekHeader ==
    /\ pc = "rows"
    /\ row_idx < end_idx
    /\ row_idx # start_idx
    /\ ~header_found
    /\ header_found' = IsHeaderRow(row)
    /\ row_idx' = row_idx + 1
    /\ UNCHANGED <<df, pc, council_sections, i, end_idx, section_data, councils_data,
                   errors, raised, branch>>

\* a row seen while header_found is True, when nothing escapes the inner try
CollectDataRow ==
    /\ pc = "rows"
    /\ row_idx < end_idx
    /\ row_idx # start_idx
    /\ header_found
    /\ CollectRow(row).kind # "raise"
    /\ section_data' = IF CollectRow(row).kind = "append"
                       THEN Append(section_data, CollectRow(row).rec)
                       ELSE section_data
    /\ row_idx' = row_idx + 1
    /\ UNCHANGED <<df, pc, council_sections, i, end_idx, header_found, councils_data,
                   errors, raised, branch>>

\* a row seen while header_found is True whose exception escapes the inner try
RaiseInRow ==
    /\ pc = "rows"
    /\ row_idx < end_idx
    /\ row_idx # start_idx
    /\ header_found
    /\ CollectRow(row).kind = "raise"
    /\ raised' = CollectRow(row).exc
    /\ pc' = "except"
    /\ UNCHANGED <<df, council_sections, i, end_idx, row_idx, header_found, section_data,
                   councils_data, errors, branch>>

\* councils_data[council_name] = council_df
Stored(data, name, table) == [k \in DOMAIN data \cup {name} |-> IF k = name THEN table ELSE data[k]]

\* a store that is not guarded by "if section_data:"
AfterRowsUnguarded(data, name, collected) == Stored(data, name, PositiveVotes(collected))

\* the statements after the row loop: if section_data: ... store the filtered table
AfterRows(data, name, collected) ==
    IF collected # << >> THEN Stored(data, name, PositiveVotes(collected)) ELSE data

StoreSection ==
    /\ pc = "rows"
    /\ row_idx = end_idx
    /\ councils_data' = AfterRows(councils_data, council_name, section_data)
    /\ i' = i + 1
    /\ pc' = "for"
    /\ UNCHANGED <<df, council_sections, end_idx, row_idx, header_found, section_data,
                   errors, raised, branch>>

\* a handler as narrow as the inner one
OuterCatchesInnerOnly(exc) == exc \in InnerCaught

\* except Exception as e
OuterCatches(exc) == exc \in {"ValueError", "IndexError", "OverflowError"}

\* the handler of the section's try: st.error names the section, continue;
\* an exception it does not catch leaves parse_election_data and reaches the
\* handler of main
ExceptSection ==
    /\ pc = "except"
    /\ IF OuterCatches(raised)
       THEN /\ errors' = Append(errors, council_name)
            /\ raised' = "none"
            /\ i' = i + 1
            /\ pc' = "for"
            /\ branch' = branch
       ELSE /\ branch' = "error_processing_file"
            /\ pc' = "done"
            /\ UNCHANGED <<errors, raised, i>>
    /\ UNCHANGED <<df, council_sections, end_idx, row_idx, header_found, section_data,
                   councils_data>>

\* return councils_data
Return ==
    /\ pc = "for"
    /\ i = Len(council_sections)
    /\ pc' = "main"
    /\ UNCHANGED <<df, council_sections, i, end_idx, row_idx, header_found, section_data,
                   councils_data, errors, raised, branch>>

\* if councils_data: ... else: st.error("Could not parse election data ...")
MainBranch(data) == IF DOMAIN data # {} THEN "success" ELSE "could_not_parse"

Main ==
    /\ pc = "main"
    /\ branch' = MainBranch(councils_data)
    /\ pc' = "done"
    /\ UNCHANGED <<df, council_sections, i, end_idx, row_idx, header_found, section_data,
                   councils_data, errors, raised>>

Next ==
    \/ DetectSections
    \/ BeginSection
    \/ SkipTitleRow
    \/ SeekHeader
    \/ CollectDataRow
    \/ RaiseInRow
    \/ StoreSection
    \/ ExceptSection
    \/ Return
    \/ Main

Spec == Init /\ [][Next]_vars

(***************************************************************************)
(* The parser as a function of the grid                                    *)
(***************************************************************************)

\* end_idx of the k-th detected section (k counted from 1)
SectionEnd(cs, k, nrows) == IF k < Len(cs) THEN cs[k + 1].idx ELSE nrows

\* the row loop of one section from row r (0-based) on: the exception that
\* leaves it, if any, and section_data when it stops
RECURSIVE ScanRows(_, _, _, _, _)
ScanRows(g, r, end, found, collected) ==
    IF r >= end THEN [exc |-> "none", data |-> collected]
    ELSE IF ~found THEN ScanRows(g, r + 1, end, IsHeaderRow(g[r + 1]), collected)
    ELSE LET c == CollectRow(g[r + 1])
         IN  IF c.kind = "raise" THEN [exc |-> c.exc, data |-> collected]
             ELSE ScanRows(g, r + 1, end, found,
                           IF c.kind = "append" THEN Append(collected, c.rec) ELSE collected)

SectionScan(g, cs, k) == ScanRows(g, cs[k].idx + 1, SectionEnd(cs, k, Len(g)), FALSE, << >>)

\* councils_data after the first n sections of cs
RECURSIVE ParseUpTo(_, _, _)
ParseUpTo(g, cs, n) ==
    IF n = 0 THEN << >>
    ELSE LET before == ParseUpTo(g, cs, n - 1)
             s == SectionScan(g, cs, n)
         IN  IF s.exc = "none" /\ s.data # << >>
             THEN Stored(before, cs[n].name, PositiveVotes(s.data))
             ELSE before

\* parse_election_data(df) for a grid of texts
ParseResult(g) == LET cs == DetectSectionsOf(g) IN ParseUpTo(g, cs, Len(cs))

(***************************************************************************)
(* Properties                                                              *)
(***************************************************************************)

\* parse_election_data has returned councils_data
Returned == pc \in {"main", "done"}

AllRecords ==
    UNION { { councils_data[k][j] : j \in 1..Len(councils_data[k]) } : k \in DOMAIN councils_data }

Min(S) == CHOOSE x \in S : \A y \in S : x <= y

Max(S) == CHOOSE x \in S : \A y \in S : x >= y

\* the table under a title, empty when the title has no entry
TableUnder(data, name) == IF name \in DOMAIN data THEN data[name] ELSE << >>

\* the entry under a title as a sequence of zero or one table
Entry(data, name) == IF name \in DOMAIN data THEN <<data[name]>> ELSE << >>

\* C1: every key of the returned ResultSet maps to a non-empty table.
C1_EveryEntryNonEmpty ==
    Returned => \A k \in DOMAIN councils_data : councils_data[k] # << >>

\* a row with three values whose votes or seats text cannot be coerced
CoercionFails(r) ==
    LET u == RowData(r)
    IN  Len(u) >= 3 /\ (Coerce(u[2]).exc # "none" \/ Coerce(u[3]).exc # "none")

\* C2: a data row whose votes or seats text fails float parsing or the
\* truncation to integer never aborts its section (the section's handler is
\* never entered on such a row).
C2_CoercionFailureSkipsOnlyTheRow ==
    ~(pc = "except" /\ CoercionFails(row))

\* C3: when no section ends up with a record in its final table, main takes
\* the "could not parse" branch.
C3_NoRecordsReachesCouldNotParse ==
    (pc = "done" /\ \A k \in DOMAIN councils_data : councils_data[k] = << >>)
        => branch = "could_not_parse"

\* C4: every record of the returned ResultSet has votes >= 0 and seats >= 0.
C4_VotesAndSeatsNonNegative ==
    Returned => \A rec \in AllRecords : rec.Votes >= 0 /\ rec.Seats >= 0

\* C5: every record of the returned ResultSet has votes > 0 and a party
\* name that is not TOTAL in any letter case.
C5_PositiveVotesAndNoTotal ==
    Returned => \A rec \in AllRecords : rec.Votes > 0 /\ Lower(rec.Party) # "total"

\* a total row after the header of a single section, next to a kept record
C5_Witness ==
    /\ pc = "done"
    /\ Len(council_sections) = 1
    /\ Len(df) >= 4
    /\ df[2] = Header
    /\ \E r \in 3..Len(df) : df[r] = TotalRow
    /\ AllRecords # {}

\* C6: the party name of every record of the returned ResultSet is non-empty
\* and has no leading or trailing whitespace.
C6_PartyTrimmedNonEmpty ==
    Returned => \A rec \in AllRecords : rec.Party # "" /\ Strip(rec.Party) = rec.Party

\* the rows of a span (0-based, end exclusive) that pass the header test
HeaderRows(g, start, end) == { r \in (start + 1)..(end - 1) : IsHeaderRow(g[r + 1]) }

\* a row that emits a record: three values, votes and seats coercible,
\* party not TOTAL
EmitsRecord(r) ==
    LET u == RowData(r)
    IN  /\ Len(u) >= 3
        /\ Coerce(u[2]).exc = "none"
        /\ Coerce(u[3]).exc = "none"
        /\ Lower(u[1]) # "total"

RecordOf(r) ==
    LET u == RowData(r)
    IN  [Party |-> u[1], Votes |-> Coerce(u[2]).val, Seats |-> Coerce(u[3]).val]

\* the records emitted by the rows r .. end-1, in row order
RECURSIVE EmittedFrom(_, _, _)
EmittedFrom(g, r, end) ==
    IF r >= end THEN << >>
    ELSE (IF EmitsRecord(g[r + 1]) THEN <<RecordOf(g[r + 1])>> ELSE << >>)
         \o EmittedFrom(g, r + 1, end)

\* the emitted records of section k after its header, without those of zero votes
EmittedNonZero(g, cs, k) ==
    LET end == SectionEnd(cs, k, Len(g))
        first == Min(HeaderRows(g, cs[k].idx, end))
    IN  SelectSeq(EmittedFrom(g, first + 1, end), LAMBDA rec : rec.Votes # 0)

UniqueTitle(cs, k) == \A j \in 1..Len(cs) : j # k => cs[j].name # cs[k].name

\* C7: the table of a section whose header is found (and whose title no
\* other section shares) is the sequence of records emitted after the
\* header, in row order, with exactly the records of zero votes removed.
C7_TableIsEmittedWithoutZeroVotes ==
    pc = "done" =>
        \A k \in 1..Len(council_sections) :
            (/\ UniqueTitle(council_sections, k)
             /\ HeaderRows(df_str, council_sections[k].idx,
                           SectionEnd(council_sections, k, Len(df_str))) # {})
            => TableUnder(councils_data, council_sections[k].name)
                   = EmittedNonZero(df_str, council_sections, k)

\* the trimmed text starts with "N -" for N in 1..23 and contains
\* "council" or "sabha" in any letter case
Qualifies(cell) ==
    LET t == Strip(cell)
        low == Lower(t)
    IN  /\ \E n \in 1..23 : StartsWith(t, ToString(n) \o " -")
        /\ (Contains(low, "council") \/ Contains(low, "sabha"))

QualifyingCols(r) == { c \in 1..Len(r) : Qualifies(r[c]) }

\* the state in which the detection loop has just ended
DetectionDone == pc = "for" /\ i = 0

\* C8: when the detection loop ends, a row has yielded a section iff one of
\* its cells qualifies; it has yielded one section, titled by the trimmed
\* text of its leftmost qualifying cell; the sections are in ascending row
\* order.
C8_DetectorSoundAndComplete ==
    DetectionDone =>
        LET g == df_str
            cs == council_sections
        IN  /\ \A r \in 1..Len(g) :
                   (QualifyingCols(g[r]) # {}) <=> (\E j \in 1..Len(cs) : cs[j].idx = r - 1)
            /\ \A j \in 1..Len(cs) :
                   /\ cs[j].idx \in 0..(Len(g) - 1)
                   /\ QualifyingCols(g[cs[j].idx + 1]) # {}
                   /\ cs[j].name = Strip(g[cs[j].idx + 1][Min(QualifyingCols(g[cs[j].idx + 1]))])
            /\ \A j, k \in 1..Len(cs) : j < k => cs[j].idx < cs[k].idx

\* a row with two qualifying cells and a row that only looks like a title
C8_Witness ==
    /\ DetectionDone
    /\ Len(council_sections) >= 2
    /\ \E r \in 1..Len(df) : df[r] = TitleB
    /\ \E r \in 1..Len(df) : df[r] = NearTitle

\* the sections whose row loop is left by an exception
Failing(g, cs) == { k \in 1..Len(cs) : SectionScan(g, cs, k).exc # "none" }

\* the titles of the failing sections among the first n, in section order
RECURSIVE FailingNames(_, _, _)
FailingNames(g, cs, n) ==
    IF n = 0 THEN << >>
    ELSE FailingNames(g, cs, n - 1) \o (IF n \in Failing(g, cs) THEN <<cs[n].name>> ELSE << >>)

\* the grid with every row that raises replaced by a row of empty cells
Harmless(g) ==
    [r \in 1..Len(g) |->
        IF CollectRow(g[r]).kind = "raise" THEN [c \in 1..Len(g[r]) |-> "nan"] ELSE g[r]]

\* C9: an exception raised while a section's table is built never leaves
\* parse_election_data; the diagnostics name exactly the failing sections;
\* and every section whose title no failing section shares has the entry it
\* has when the failing rows are harmless.
C9_SectionFailureIsIsolated ==
    /\ branch # "error_processing_file"
    /\ pc = "done" =>
           LET g == df_str
               cs == council_sections
               bad == Failing(g, cs)
               calm == ParseResult(Harmless(g))
           IN  /\ errors = FailingNames(g, cs, Len(cs))
               /\ \A k \in 1..Len(cs) :
                      (\A j \in bad : cs[j].name # cs[k].name)
                          => Entry(councils_data, cs[k].name) = Entry(calm, cs[k].name)

\* a failing section next to a section of another title that has a table
C9_Witness ==
    /\ pc = "done"
    /\ errors # << >>
    /\ \E k \in 1..Len(council_sections) :
           /\ \A j \in 1..Len(errors) : errors[j] # council_sections[k].name
           /\ TableUnder(councils_data, council_sections[k].name) # << >>

\* the sections titled t
Titled(cs, t) == { k \in 1..Len(cs) : cs[k].name = t }

\* the sections titled t that reach the store with at least one record
Storing(g, cs, t) ==
    { k \in Titled(cs, t) :
        SectionScan(g, cs, k).exc = "none" /\ SectionScan(g, cs, k).data # << >> }

\* C10 as stated: under a title shared by two sections the entry is the
\* table of the later one, whatever the two sections contain (stated here
\* for titles none of whose sections raises).
C10_LaterSectionAlwaysOverwrites ==
    pc = "done" =>
        \A k \in 1..Len(council_sections) :
            LET t == council_sections[k].name
            IN  (/\ Cardinality(Titled(council_sections, t)) >= 2
                 /\ k = Max(Titled(council_sections, t))
                 /\ Titled(council_sections, t) \cap Failing(df_str, council_sections) = {})
                => TableUnder(councils_data, t)
                       = PositiveVotes(SectionScan(df_str, council_sections, k).data)

\* C10 amended: under a title shared by several sections the entry is the
\* filtered table of the latest of them that completed without an exception
\* and collected at least one record; there is no entry when there is no
\* such section.
C10_LatestStoringSectionWins ==
    pc = "done" =>
        \A k \in 1..Len(council_sections) :
            LET t == council_sections[k].name
                S == Storing(df_str, council_sections, t)
            IN  Cardinality(Titled(council_sections, t)) >= 2 =>
                    IF S = {} THEN t \notin DOMAIN councils_data
                    ELSE /\ t \in DOMAIN councils_data
                         /\ councils_data[t]
                                = PositiveVotes(SectionScan(df_str, council_sections, Max(S)).data)

\* two sections of one title with different tables, the later one non-empty
\* and stored
C10_Witness ==
    /\ pc = "done"
    /\ \E j, k \in 1..Len(council_sections) :
           LET t == council_sections[k].name
           IN  /\ j < k
               /\ council_sections[j].name = t
               /\ {j, k} \subseteq Storing(df_str, council_sections, t)
               /\ PositiveVotes(SectionScan(df_str, council_sections, j).data)
                      # PositiveVotes(SectionScan(df_str, council_sections, k).data)
               /\ PositiveVotes(SectionScan(df_str, council_sections, k).data) # << >>
               /\ t \in DOMAIN councils_data
               /\ councils_data[t]
                      = PositiveVotes(SectionScan(df_str, council_sections, k).data)

\* the records emitted in a span (0-based, end exclusive) after its first
\* row that passes the header test; none when no row passes it
EmittedAfterHeader(g, start, end) ==
    IF HeaderRows(g, start, end) = {} THEN << >>
    ELSE EmittedFrom(g, Min(HeaderRows(g, start, end)) + 1, end)

\* C11: while a section is scanned, end_idx is the next section's start row
\* or the row count and the scan stays within [start_idx, end_idx]; the
\* header is found exactly when a row after the title row and before the
\* current row passes the header test (so the title row is never the header
\* and the flag never goes back); the collected records are exactly those
\* emitted by the rows read after the first such row (so the header and the
\* rows at or before it emit nothing).  At the end, a section of a title of
\* its own that has no header row has no entry, and every other section of
\* a title of its own that does not fail has the entry of its own rows.
C11_ScanFollowsPhases ==
    /\ pc = "rows" =>
           LET g == df_str
               seen == HeaderRows(g, start_idx, row_idx)
           IN  /\ end_idx = SectionEnd(council_sections, i + 1, Len(g))
               /\ start_idx <= row_idx
               /\ row_idx <= end_idx
               /\ header_found <=> (seen # {})
               /\ section_data = EmittedAfterHeader(g, start_idx, row_idx)
    /\ pc = "done" =>
           LET g == df_str
               cs == council_sections
           IN  \A k \in 1..Len(cs) :
                   (UniqueTitle(cs, k) /\ k \notin Failing(g, cs)) =>
                       LET own == EmittedAfterHeader(g, cs[k].idx, SectionEnd(cs, k, Len(g)))
                       IN  IF own = << >> THEN cs[k].name \notin DOMAIN councils_data
                           ELSE Entry(councils_data, cs[k].name) = <<PositiveVotes(own)>>

\* a section without a header whose rows would emit records has no entry,
\* a title row that passes the header test has been read and the section
\* after them has its table
C11_Witness ==
    /\ pc = "done"
    /\ Len(council_sections) = 2
    /\ df[1] = TitleHeader
    /\ HeaderRows(df_str, 0, council_sections[2].idx) = {}
    /\ EmittedFrom(df_str, 1, council_sections[2].idx) # << >>
    /\ council_sections[1].name \notin DOMAIN councils_data
    /\ TableUnder(councils_data, council_sections[2].name) # << >>

====
